---- MODULE Spec2Model ----
(***************************************************************************)
(* Model of notte's LLM layer: StructuredContent.extract (tag peeling) and *)
(* LLMEngine (completion, single_completion, structured_completion) of     *)
(* src/notte/llms/engine.py.                                               *)
(*                                                                         *)
(* A Python str is a sequence of one-character strings.  An optional value *)
(* (str | None) is a sequence of length 0 (None) or 1 (the value).         *)
(***************************************************************************)
EXTENDS Integers, Sequences, FiniteSets, TLC

VARIABLES
    sc,         \* the StructuredContent in use (the engine's self.sc)
    text,       \* the text handed to extract
    pc,         \* position of the caller
    result,     \* outcome of extract(text)
    again,      \* outcome of extract on the returned content
    self_model, \* LLMEngine.model
    request,    \* the engine operation called and its model argument
    calls,      \* litellm.completion invocations during the current call
    provided,   \* what litellm.completion returned or raised
    outcome,    \* what the engine operation returned or raised
    config,     \* the BrowserResourceHandlerConfig of the handler
    playwright, \* PlaywrightResourceHandler._playwright is not None
    browser,    \* BrowserResourceHandler.browser (None or a browser)
    browsers,   \* the browsers created so far: browsers[b] is "b was closed"
    arg_calls,  \* number of get_chromium_args calls made on the config
    returned    \* what the last config or handler operation returned or raised

vars == <<sc, text, pc, result, again, self_model, request, calls, provided, outcome,
          config, playwright, browser, browsers, arg_calls, returned>>

browser_vars == <<config, playwright, browser, browsers, arg_calls, returned>>

llm_vars == <<sc, text, pc, result, again, self_model, request, calls, provided, outcome>>

caller_vars == <<sc, text, result, again>>

engine_vars == <<self_model, request, calls, provided, outcome>>

(***************************************************************************)
(* Bounds of the input spaces.                                             *)
(***************************************************************************)
\* number of chunks an input text of SpecOuter is made of
MaxOuterChunks == 5

\* number of chunks an input text of SpecExtract is made of
MaxChunks == 4

\* number of chunks an input text of SpecInner is made of
MaxInnerChunks == 5

\* number of chunks the text of a provider exception is made of
MaxErrChunks == 3

\* number of chunks the content of a provider response is made of
MaxContentChunks == 4

\* number of get_chromium_args calls made on one config
MaxArgCalls == 3

\* number of browsers one handler creates
MaxBrowsers == 2

(***************************************************************************)
(* Python str primitives.                                                  *)
(***************************************************************************)
None == <<>>

Some(v) == <<v>>

\* truth value of "if self.outer_tag:" : None and "" are both falsy
Truthy(opt) == opt # None /\ opt[1] # <<>>

\* the characters str.strip() removes (those of the model's alphabet)
IsSpace(c) == c \in {" ", "\n", "\t"}

\* pattern p occurs in s at index i
MatchAt(s, p, i) ==
    /\ i >= 1
    /\ i + Len(p) - 1 <= Len(s)
    /\ \A k \in 1..Len(p) : s[i + k - 1] = p[k]

\* str.find from index k (1-based), 0 when absent
Find(s, p, k) ==
    LET I == {i \in k..(Len(s) - Len(p) + 1) : MatchAt(s, p, i)}
    IN  IF I = {} THEN 0 ELSE CHOOSE i \in I : \A j \in I : i <= j

\* "p in s"
Contains(s, p) == Find(s, p, 1) # 0

\* str.strip()
strip(s) ==
    LET K == {k \in 1..Len(s) : ~IsSpace(s[k])}
    IN  IF K = {} THEN <<>>
        ELSE SubSeq(s, CHOOSE k \in K : \A j \in K : k <= j,
                       CHOOSE k \in K : \A j \in K : j <= k)

\* str.startswith / str.endswith
startswith(s, p) == MatchAt(s, p, 1)

endswith(s, p) == MatchAt(s, p, Len(s) - Len(p) + 1)

RECURSIVE split(_, _)
\* str.split(sep): the list of segments between the occurrences of sep
split(s, sep) ==
    LET i == Find(s, sep, 1)
    IN  IF i = 0 THEN <<s>>
        ELSE <<SubSeq(s, 1, i - 1)>> \o split(SubSeq(s, i + Len(sep), Len(s)), sep)

(***************************************************************************)
(* The regular expressions of extract.                                     *)
(***************************************************************************)
\* "." under re.DOTALL matches every character
Dot(c) == TRUE

\* the end of a greedy group (.*): the last occurrence of the closing pattern
GroupEndGreedy(J) == CHOOSE j \in J : \A k \in J : k <= j

\* the end of the non-greedy group (.*?): the first occurrence
GroupEnd(J) == CHOOSE j \in J : \A k \in J : j <= k

\* re.search(open + "(.*?)" + close, s, re.DOTALL): None, or group(1) of the
\* leftmost match
re_search_group(open, close, s) ==
    LET Ends(i) == {j \in (i + Len(open))..(Len(s) - Len(close) + 1) :
                        /\ MatchAt(s, close, j)
                        /\ \A k \in (i + Len(open))..(j - 1) : Dot(s[k])}
        I == {i \in 1..Len(s) : MatchAt(s, open, i) /\ Ends(i) # {}}
    IN  IF I = {} THEN None
        ELSE LET i == CHOOSE x \in I : \A y \in I : x <= y
             IN  Some(SubSeq(s, i + Len(open), GroupEnd(Ends(i)) - 1))

\* re.search(r"</[^>]*>", s) is not None: closing tags only
re_search_closing_tag(s) ==
    \E i \in 1..(Len(s) - 1) :
        /\ s[i] = "<"
        /\ s[i + 1] = "/"
        /\ \E j \in (i + 2)..Len(s) : s[j] = ">"

\* re.search(r"<[^>]*>", s) is not None
re_search_html_tag(s) ==
    \E i \in 1..Len(s) :
        /\ s[i] = "<"
        /\ \E j \in (i + 1)..Len(s) :
              /\ s[j] = ">"
              /\ \A k \in (i + 1)..(j - 1) : s[k] # ">"

\* f"<{tag}>" and f"</{tag}>"
OpenTag(tag) == <<"<">> \o tag \o <<">">>

CloseTag(tag) == <<"<", "/">> \o tag \o <<">">>

\* the backquote character (a TLA+ string cannot hold one)
BQ == "BQ"

FENCE == <<BQ, BQ, BQ>>

(***************************************************************************)
(* Outcomes of a call: a returned value or a raised error.                 *)
(***************************************************************************)
Ret(v) == [kind |-> "return", val |-> v, err |-> "none"]

Raise(e) == [kind |-> "raise", val |-> <<>>, err |-> e]

NoResult == [kind |-> "none", val |-> <<>>, err |-> "none"]

(***************************************************************************)
(* StructuredContent: the extraction configuration and extract.            *)
(***************************************************************************)
TAG_R == <<"r">>

TAG_N == <<"n">>

TAG_JSON == <<"j", "s", "o", "n">>

StructuredContent(outer, inner, next, ffinal, finner, fnext) ==
    [outer_tag |-> outer, inner_tag |-> inner, next_outer_tag |-> next,
     fail_if_final_tag |-> ffinal, fail_if_inner_tag |-> finner,
     fail_if_next_outer_tag |-> fnext]

\* line 177 with the flag ignored: only a missing opening tag fails
outer_must_fail_flag_ignored(cfg, splits) == Len(splits) = 1

\* line 177: fail when asked to, or when the opening tag is absent
outer_must_fail(cfg, splits) == cfg.fail_if_final_tag \/ Len(splits) = 1

\* lines 168-195: content after the outer-tag stage
extract_outer(cfg, t) ==
    LET open  == OpenTag(cfg.outer_tag[1])
        close == CloseTag(cfg.outer_tag[1])
        match == re_search_group(open, close, t)
        splits == split(t, open)
        nopen == OpenTag(cfg.next_outer_tag[1])
        useNext == /\ cfg.next_outer_tag # None
                   /\ ~cfg.fail_if_next_outer_tag
                   /\ Contains(splits[2], nopen)
        splits2 == split(splits[2], nopen)
        possible_match == IF useNext THEN strip(splits2[1]) ELSE splits[2]
    IN  IF ~Truthy(cfg.outer_tag) THEN Ret(t)
        ELSE IF match # None THEN Ret(strip(match[1]))
        ELSE IF outer_must_fail(cfg, splits) THEN Raise("LLMParsingError")
        ELSE IF useNext /\ Len(splits2) = 1 THEN Raise("LLMParsingError")
        ELSE IF re_search_html_tag(possible_match) THEN Raise("LLMParsingError")
        ELSE Ret(possible_match)

\* the inner stage with fail_if_inner_tag ignored: no block always fails
extract_inner_strict(cfg, content) ==
    LET match == re_search_group(FENCE \o cfg.inner_tag[1], FENCE, content)
    IN  IF ~Truthy(cfg.inner_tag) THEN Ret(content)
        ELSE IF match # None THEN Ret(strip(match[1]))
        ELSE Raise("LLMParsingError")

\* the inner stage trimming the content it found no block in
extract_inner_trimming(cfg, content) ==
    LET match == re_search_group(FENCE \o cfg.inner_tag[1], FENCE, content)
    IN  IF ~Truthy(cfg.inner_tag) THEN Ret(content)
        ELSE IF match # None THEN Ret(strip(match[1]))
        ELSE IF cfg.fail_if_inner_tag THEN Raise("LLMParsingError")
        ELSE Ret(strip(content))

\* lines 197-206: the inner (fenced block) stage applied to content
extract_inner(cfg, content) ==
    LET match == re_search_group(FENCE \o cfg.inner_tag[1], FENCE, content)
    IN  IF ~Truthy(cfg.inner_tag) THEN Ret(content)
        ELSE IF match # None THEN Ret(strip(match[1]))
        ELSE IF cfg.fail_if_inner_tag THEN Raise("LLMParsingError")
        ELSE Ret(content)

\* StructuredContent.extract
extract(cfg, t) ==
    LET o == extract_outer(cfg, t)
    IN  IF o.kind = "raise" THEN o ELSE extract_inner(cfg, o.val)

(***************************************************************************)
(* Input spaces: texts are concatenations of chunks.                       *)
(***************************************************************************)
RECURSIVE Texts(_, _)
Texts(Chunks, n) ==
    IF n = 0 THEN {<<>>}
    ELSE LET T == Texts(Chunks, n - 1) IN T \cup {t \o c : t \in T, c \in Chunks}

JSON_OPEN == <<"{", "\"", "a", "\"", ":", "\"">>

JSON_CLOSE == <<"\"", "}">>

OuterChunks ==
    {OpenTag(TAG_R), CloseTag(TAG_R), OpenTag(TAG_N), <<"x">>, <<"\n">>, <<"<">>}

InnerChunks ==
    {FENCE \o TAG_JSON, FENCE, JSON_OPEN, JSON_CLOSE, <<"x">>, <<"\n">>}

MixedChunks ==
    {OpenTag(TAG_R), CloseTag(TAG_R), OpenTag(TAG_N), FENCE \o TAG_JSON, FENCE,
     <<"x">>, <<"\n">>}

\* The flags of a stage whose tag is unset are never read: they keep their
\* default (True) in the configurations below.
OuterParts ==
    {<<None, None, TRUE, TRUE>>}
    \cup {<<Some(TAG_R), None, ffinal, TRUE>> : ffinal \in BOOLEAN}
    \cup {<<Some(TAG_R), Some(TAG_N), ffinal, fnext>> :
            ffinal \in BOOLEAN, fnext \in BOOLEAN}

InnerParts == {<<None, TRUE>>} \cup {<<Some(TAG_JSON), finner>> : finner \in BOOLEAN}

\* every configuration over the tags r, n and json
AllConfigs ==
    {StructuredContent(o[1], i[1], o[2], o[3], i[2], o[4]) :
        o \in OuterParts, i \in InnerParts}

\* StructuredContent(outer_tag="r", ...) without an inner tag
OuterConfigs == {c \in AllConfigs : c.outer_tag # None /\ c.inner_tag = None}

\* StructuredContent(inner_tag="json", ...) without an outer tag
InnerConfigs == {c \in AllConfigs : c.outer_tag = None /\ c.inner_tag # None}

(***************************************************************************)
(* The provider client (litellm): responses and exceptions.                *)
(***************************************************************************)
DEFAULT_MODEL == "groq/llama-3.3-70b-versatile"

PAT_CURRENT == <<"C", "u", "r", "r", "e", "n", "t", " ", "l", "e", "n", "g", "t", "h", " ", "i", "s", " ">>

PAT_LIMIT == <<" ", "w", "h", "i", "l", "e", " ", "l", "i", "m", "i", "t", " ", "i", "s", " ">>

MSG_IMAGE == <<"I", "n", "p", "u", "t", " ", "s", "h", "o", "u", "l", "d", " ", "b", "e", " ", "a", " ", "v", "a", "l", "i", "d", " ", "s", "t", "r", "i", "n", "g">>

MSG_CREDIT == <<"c", "r", "e", "d", "i", "t", " ", "b", "a", "l", "a", "n", "c", "e", " ", "i", "s", " ", "t", "o", "o", " ", "l", "o", "w">>

\* "Current length is 5000 while limit is 4096"
MSG_SIZES == PAT_CURRENT \o <<"5", "0", "0", "0">> \o PAT_LIMIT \o <<"4", "0", "9", "6">>

\* the exception classes of the provider client; Timeout stands for the
\* exceptions outside the five the engine names
ExceptionClasses ==
    {"RateLimitError", "AuthenticationError", "ContextWindowExceededError",
     "BadRequestError", "APIError", "Timeout"}

\* a context-window error is a kind of bad request
Bases(cls) ==
    IF cls = "ContextWindowExceededError"
    THEN {"ContextWindowExceededError", "BadRequestError", "Exception"}
    ELSE {cls, "Exception"}

\* what an "except C" clause tests
isinstance(e, C) == C \in Bases(e.cls)

Response(content) == [kind |-> "response", content |-> content, cls |-> "none", text |-> <<>>]

Exception(cls, t) == [kind |-> "exception", content |-> None, cls |-> cls, text |-> t]

NoProvided == [kind |-> "none", content |-> None, cls |-> "none", text |-> <<>>]

NoRequest == [op |-> "none", model |-> None]

(***************************************************************************)
(* Outcomes of the engine operations.                                      *)
(***************************************************************************)
NoOutcome ==
    [kind |-> "none", val |-> None, err |-> "none", provider |-> None, model |-> None,
     current_size |-> None, max_size |-> None, should_retry_later |-> None,
     content |-> None, validated |-> FALSE]

Returns(v) == [NoOutcome EXCEPT !.kind = "return", !.val = Some(v)]

Raises(e) == [NoOutcome EXCEPT !.kind = "raise", !.err = e]

(***************************************************************************)
(* LLMEngine.completion: one provider call and the classification of what  *)
(* it raises.                                                              *)
(***************************************************************************)
IsDigit(c) == c \in {"0", "1", "2", "3", "4", "5", "6", "7", "8", "9"}

DigitVal(c) == CHOOSE d \in 0..9 : <<"0", "1", "2", "3", "4", "5", "6", "7", "8", "9">>[d + 1] = c

RECURSIVE int(_)
\* int(s) of a string of decimal digits
int(s) == IF s = <<>> THEN 0 ELSE 10 * int(SubSeq(s, 1, Len(s) - 1)) + DigitVal(s[Len(s)])

\* the greedy run (\d+) starting at index i: the index after its last digit
\* (i itself when s[i] is no digit)
DigitsEnd(s, i) ==
    CHOOSE j \in i..(Len(s) + 1) :
        /\ \A k \in i..(j - 1) : IsDigit(s[k])
        /\ j = Len(s) + 1 \/ ~IsDigit(s[j])

\* re.search(r"Current length is (\d+) while limit is (\d+)", s): None, or
\* the two groups of the leftmost match
re_search_sizes(s) ==
    LET n1(i) == i + Len(PAT_CURRENT)
        n2(i) == DigitsEnd(s, n1(i))
        m1(i) == n2(i) + Len(PAT_LIMIT)
        m2(i) == DigitsEnd(s, m1(i))
        I == {i \in 1..Len(s) :
                /\ MatchAt(s, PAT_CURRENT, i)
                /\ n2(i) > n1(i)
                /\ MatchAt(s, PAT_LIMIT, n2(i))
                /\ m2(i) > m1(i)}
    IN  IF I = {} THEN None
        ELSE LET i == CHOOSE x \in I : \A y \in I : x <= y
             IN  Some(<<SubSeq(s, n1(i), n2(i) - 1), SubSeq(s, m1(i), m2(i) - 1)>>)

\* lines 101-107 with the two groups exchanged
context_window_sizes_swapped(s) ==
    LET match == re_search_sizes(s)
    IN  IF match # None
        THEN [current_size |-> Some(int(match[1][2])), max_size |-> Some(int(match[1][1]))]
        ELSE [current_size |-> None, max_size |-> None]

\* lines 101-107: the sizes parsed from the text of a context-window error
context_window_sizes(s) ==
    LET match == re_search_sizes(s)
    IN  IF match # None
        THEN [current_size |-> Some(int(match[1][1])), max_size |-> Some(int(match[1][2]))]
        ELSE [current_size |-> None, max_size |-> None]

\* the except clauses with BadRequestError tested before its subclass
classify_bad_request_first(model, e) ==
    IF isinstance(e, "RateLimitError")
    THEN [Raises("RateLimitError") EXCEPT !.provider = Some(model)]
    ELSE IF isinstance(e, "AuthenticationError")
    THEN [Raises("InvalidAPIKeyError") EXCEPT !.provider = Some(model)]
    ELSE IF isinstance(e, "BadRequestError")
    THEN IF Contains(e.text, MSG_IMAGE)
         THEN [Raises("ModelDoesNotSupportImageError") EXCEPT !.model = Some(model)]
         ELSE [Raises("LLMProviderError") EXCEPT !.should_retry_later = Some(FALSE)]
    ELSE IF isinstance(e, "APIError")
    THEN [Raises("LLMProviderError") EXCEPT !.should_retry_later = Some(TRUE)]
    ELSE IF Contains(e.text, MSG_CREDIT)
    THEN Raises("InsufficentCreditsError")
    ELSE [Raises("LLMProviderError") EXCEPT !.should_retry_later = Some(TRUE)]

\* lines 95-139: the except clauses, in order
classify(model, e) ==
    IF isinstance(e, "RateLimitError")
    THEN [Raises("RateLimitError") EXCEPT !.provider = Some(model)]
    ELSE IF isinstance(e, "AuthenticationError")
    THEN [Raises("InvalidAPIKeyError") EXCEPT !.provider = Some(model)]
    ELSE IF isinstance(e, "ContextWindowExceededError")
    THEN [Raises("ContextWindowExceededError") EXCEPT
            !.provider = Some(model),
            !.current_size = context_window_sizes(e.text).current_size,
            !.max_size = context_window_sizes(e.text).max_size]
    ELSE IF isinstance(e, "BadRequestError")
    THEN IF Contains(e.text, MSG_IMAGE)
         THEN [Raises("ModelDoesNotSupportImageError") EXCEPT !.model = Some(model)]
         ELSE [Raises("LLMProviderError") EXCEPT !.should_retry_later = Some(FALSE)]
    ELSE IF isinstance(e, "APIError")
    THEN [Raises("LLMProviderError") EXCEPT !.should_retry_later = Some(TRUE)]
    ELSE IF Contains(e.text, MSG_CREDIT)
    THEN Raises("InsufficentCreditsError")
    ELSE [Raises("LLMProviderError") EXCEPT !.should_retry_later = Some(TRUE)]

\* "self.model" alone: the model argument is dropped
model_or_default_only(model, default) == default

\* "model or self.model": None and "" fall back to the default
model_or(model, default) == IF model # None /\ model[1] # "" THEN model[1] ELSE default

\* the usage tracer wrapping completion records the call and hands its
\* return value or its exception through
trace_llm_usage(o) == o

\* LLMEngine.completion, given what the provider call does
completion(self, model, p) ==
    trace_llm_usage(
        IF p.kind = "response" THEN Returns(p)
        ELSE classify(model_or(model, self), p))

\* LLMEngine.single_completion: the first choice's content, untouched
single_completion(self, model, p) ==
    LET response == completion(self, Some(model_or(model, self)), p)
    IN  IF response.kind = "raise" THEN response
        ELSE [NoOutcome EXCEPT !.kind = "return", !.val = response.val[1].content]

(***************************************************************************)
(* LLMEngine.structured_completion for the schema S = {a: str}.            *)
(***************************************************************************)
\* S(a=v).model_dump_json()
Serialize(s) == JSON_OPEN \o s.a \o JSON_CLOSE

\* the JSON whitespace a parser skips around a value
json_strip(y) == strip(y)

\* S.model_validate_json(content): None on a ValidationError, or the instance
model_validate_json(content) ==
    LET s == json_strip(content)
        lo == Len(JSON_OPEN) + 1
        hi == Len(s) - Len(JSON_CLOSE)
    IN  IF /\ Len(s) >= Len(JSON_OPEN) + Len(JSON_CLOSE)
           /\ startswith(s, JSON_OPEN)
           /\ endswith(s, JSON_CLOSE)
           /\ \A k \in lo..hi : s[k] \notin {"\"", "\n", "\t"}
        THEN Some([a |-> SubSeq(s, lo, hi)])
        ELSE None

\* line 49: content.startswith("{") and content.endswith("}")
looks_like_object(content) == startswith(content, <<"{">>) /\ endswith(content, <<"}">>)

\* lines 51-55 without the validation: the text is taken as the field
validate_lenient(content) ==
    [Returns([a |-> content]) EXCEPT !.content = Some(content)]

\* lines 51-55: validate, and turn a ValidationError into LLMParsingError
validate(content) ==
    LET parsed == model_validate_json(content)
    IN  IF parsed # None
        THEN [Returns(parsed[1]) EXCEPT !.content = Some(content), !.validated = TRUE]
        ELSE [Raises("LLMParsingError") EXCEPT !.content = Some(content), !.validated = TRUE]

\* lines 44-55, from the stripped content of the first choice
parse_structured(cfg, content) ==
    LET first == extract(cfg, content)
        c1 == strip(first.val)
        second == extract(cfg, c1)
    IN  IF first.kind = "raise" THEN Raises(first.err)
        ELSE IF Contains(c1, FENCE \o TAG_JSON)
        THEN IF second.kind = "raise" THEN Raises(second.err)
             ELSE validate(strip(second.val))
        ELSE IF ~looks_like_object(c1)
        THEN [Raises("LLMParsingError") EXCEPT !.content = Some(c1)]
        ELSE validate(c1)

\* LLMEngine.structured_completion
structured_completion(self, cfg, model, p) ==
    LET r == single_completion(self, model, p)
    IN  IF r.kind = "raise" THEN r
        ELSE IF r.val = None THEN Raises("AttributeError")
        ELSE parse_structured(cfg, strip(r.val[1]))

(***************************************************************************)
(* Input spaces of the engine.                                             *)
(***************************************************************************)
ErrChunks == {MSG_SIZES, PAT_CURRENT, PAT_LIMIT, <<"7">>, MSG_IMAGE, MSG_CREDIT}

\* the instances of S the provider may serialize
Instances == {[a |-> <<"x">>], [a |-> FENCE]}

ContentChunks ==
    {FENCE \o TAG_JSON, FENCE, <<"x">>, <<"\n">>} \cup {Serialize(s) : s \in Instances}

ProviderOutcomes ==
    {Exception(cls, t) : cls \in ExceptionClasses, t \in Texts(ErrChunks, MaxErrChunks)}
    \cup {Response(Some(t)) : t \in Texts(ContentChunks, MaxContentChunks)}
    \cup {Response(None)}

Operations == {"completion", "single_completion", "structured_completion"}

ModelArgs == {None, Some(""), Some("m1")}

(***************************************************************************)
(* Browser resources (src/notte/browser/resource.py): the handler's        *)
(* configuration and the playwright browser it holds.  A browser is the    *)
(* index of its creation; a list of flags is a sequence of strings.        *)
(***************************************************************************)
base_debug_port == 9222

default_chromium_args ==
    <<"--disable-dev-shm-usage", "--disable-extensions", "--no-sandbox",
      "--disable-setuid-sandbox", "--no-zygote", "--mute-audio",
      "--js-flags=\"--max-old-space-size=100\"", "--no-first-run",
      "--no-default-browser-check", "--start-maximized">>

security_chromium_args ==
    <<"--disable-web-security", "--disable-site-isolation-trials",
      "--disable-features=IsolateOrigins,site-per-process", "--remote-allow-origins=*">>

\* f"--custom-devtools-frontend={self.custom_devtools_frontend}"
custom_devtools_frontend_flag(url) == "--custom-devtools-frontend=" \o url

\* f"--remote-debugging-port={cdp_port}"
remote_debugging_port_flag(cdp_port) == "--remote-debugging-port=" \o ToString(cdp_port)

\* a BrowserResourceHandlerConfig as constructed
BrowserResourceHandlerConfig(web_security, custom_devtools_frontend) ==
    [web_security |-> web_security,
     custom_devtools_frontend |-> custom_devtools_frontend,
     default_chromium_args |-> default_chromium_args,
     security_chromium_args |-> security_chromium_args]

\* the flags get_chromium_args adds to the list it starts from
chromium_args_from(cfg, start, cdp_port) ==
    LET secured == IF ~cfg.web_security THEN start \o cfg.security_chromium_args ELSE start
        fronted == IF cfg.custom_devtools_frontend # None
                   THEN secured \o <<custom_devtools_frontend_flag(cfg.custom_devtools_frontend[1])>>
                   ELSE secured
    IN  IF cdp_port # None
        THEN Append(fronted, remote_debugging_port_flag(cdp_port[1]))
        ELSE fronted

\* get_chromium_args: chromium_args is the config's own list (no copy), so
\* the list returned is also the config's default_chromium_args afterwards
get_chromium_args(cfg, cdp_port) == chromium_args_from(cfg, cfg.default_chromium_args, cdp_port)

\* the config after get_chromium_args(cdp_port)
config_after_get_chromium_args(cfg, cdp_port) ==
    [cfg EXCEPT !.default_chromium_args = get_chromium_args(cfg, cdp_port)]

CHROMIUM == "chromium"

FIREFOX == "firefox"

\* the fields of BrowserResourceOptions the handler branches on
BrowserResourceOptions(cdp_url, browser_type, debug_port) ==
    [cdp_url |-> cdp_url, browser_type |-> browser_type, debug_port |-> debug_port]

\* outcomes of config and handler operations
NoReturned == [op |-> "none", kind |-> "none", val |-> None, err |-> "none", arg |-> None]

Returned(op, arg, val) == [op |-> op, kind |-> "return", val |-> val, err |-> "none", arg |-> arg]

Raised(op, arg, err) == [op |-> op, kind |-> "raise", val |-> None, err |-> err, arg |-> arg]

\* create_playwright_browser from config cfg with n browsers created so far;
\* ok: the connection or launch succeeds.  cfg: the config afterwards,
\* out: the browser returned or the error raised, assigned: line 263 ran
create_playwright_browser(cfg, pw, n, options, ok) ==
    IF options.cdp_url # None
    THEN [cfg |-> cfg,
          out |-> IF ~pw THEN Raise("BrowserPoolNotStartedError")
                  ELSE IF ~ok THEN Raise("Error")
                  ELSE Ret(n + 1),
          assigned |-> FALSE]
    ELSE LET cfg2 == IF options.browser_type = CHROMIUM
                     THEN config_after_get_chromium_args(cfg, options.debug_port)
                     ELSE cfg
         IN  [cfg |-> cfg2,
              out |-> IF ~pw THEN Raise("BrowserPoolNotStartedError")
                      ELSE IF ~ok THEN Raise("Error")
                      ELSE Ret(n + 1),
              assigned |-> pw /\ ok]

\* the state of a handler after construction
InitHandler(cfg) ==
    /\ config = cfg
    /\ playwright = FALSE
    /\ browser = None
    /\ browsers = <<>>
    /\ arg_calls = 0
    /\ returned = NoReturned

\* the inputs of the browser operations
Configs ==
    {BrowserResourceHandlerConfig(ws, cdf) : ws \in BOOLEAN, cdf \in {None, Some("http://devtools")}}

DebugPorts == {None, Some(base_debug_port), Some(base_debug_port + 1)}

ResourceOptions ==
    {BrowserResourceOptions(u, t, p) :
        u \in {None, Some("ws://browser")}, t \in {CHROMIUM, FIREFOX}, p \in DebugPorts}

(***************************************************************************)
(* Engine state machine: a caller invokes an operation; the operation      *)
(* calls the provider once and runs to its end; the caller takes the       *)
(* outcome.                                                                *)
(***************************************************************************)
\* LLMEngine.__init__(model)
InitEngine ==
    /\ \E model \in {None, Some(""), Some("m2")} : self_model = model_or(model, DEFAULT_MODEL)
    /\ sc = StructuredContent(None, Some(TAG_JSON), None, TRUE, FALSE, TRUE)
    /\ text = <<>>
    /\ pc = "idle"
    /\ result = NoResult
    /\ again = NoResult
    /\ request = NoRequest
    /\ calls = 0
    /\ provided = NoProvided
    /\ outcome = NoOutcome
    /\ InitHandler(BrowserResourceHandlerConfig(FALSE, None))

\* the operation's result, given what its provider call did
run(req, self, cfg, p) ==
    IF req.op = "completion" THEN completion(self, req.model, p)
    ELSE IF req.op = "single_completion" THEN single_completion(self, req.model, p)
    ELSE structured_completion(self, cfg, req.model, p)

\* an engine that calls the provider again after a failure it may retry
after_provider_retrying(o) ==
    IF o.kind = "raise" /\ o.should_retry_later = Some(TRUE) THEN "calling" ELSE "done"

\* no operation loops back to the provider call
after_provider(o) == "done"

Invoke ==
    /\ pc = "idle"
    /\ \E op \in Operations, model \in ModelArgs : request' = [op |-> op, model |-> model]
    /\ pc' = "calling"
    /\ UNCHANGED <<calls, provided, outcome, self_model>>
    /\ UNCHANGED caller_vars
    /\ UNCHANGED browser_vars

\* line 85 and everything after it
ProviderCall ==
    /\ pc = "calling"
    /\ \E p \in ProviderOutcomes :
          /\ provided' = p
          /\ outcome' = run(request, self_model, sc, p)
    /\ calls' = calls + 1
    /\ pc' = after_provider(outcome')
    /\ UNCHANGED <<request, self_model>>
    /\ UNCHANGED caller_vars
    /\ UNCHANGED browser_vars

\* the caller receives the outcome
Deliver ==
    /\ pc = "done"
    /\ pc' = "idle"
    /\ request' = NoRequest
    /\ calls' = 0
    /\ provided' = NoProvided
    /\ outcome' = NoOutcome
    /\ UNCHANGED self_model
    /\ UNCHANGED caller_vars
    /\ UNCHANGED browser_vars

NextEngine == Invoke \/ ProviderCall \/ Deliver

SpecEngine == InitEngine /\ [][NextEngine]_vars

(***************************************************************************)
(* Extraction state machine: a caller holds a configuration and a text,    *)
(* calls extract, and may call it again on the returned content.           *)
(***************************************************************************)
InitCaller ==
    /\ pc = "start"
    /\ result = NoResult
    /\ again = NoResult
    /\ self_model = DEFAULT_MODEL
    /\ request = NoRequest
    /\ calls = 0
    /\ provided = NoProvided
    /\ outcome = NoOutcome
    /\ InitHandler(BrowserResourceHandlerConfig(FALSE, None))

InitOuter ==
    /\ sc \in OuterConfigs
    /\ text \in Texts(OuterChunks, MaxOuterChunks)
    /\ InitCaller

InitInner ==
    /\ sc \in InnerConfigs
    /\ text \in Texts(InnerChunks, MaxInnerChunks)
    /\ InitCaller

InitExtract ==
    /\ sc \in AllConfigs
    /\ text \in Texts(MixedChunks, MaxChunks)
    /\ InitCaller

Extract ==
    /\ pc = "start"
    /\ result' = extract(sc, text)
    /\ pc' = "extracted"
    /\ UNCHANGED <<sc, text, again>>
    /\ UNCHANGED engine_vars
    /\ UNCHANGED browser_vars

ExtractAgain ==
    /\ pc = "extracted"
    /\ result.kind = "return"
    /\ again' = extract(sc, result.val)
    /\ pc' = "again"
    /\ UNCHANGED <<sc, text, result>>
    /\ UNCHANGED engine_vars
    /\ UNCHANGED browser_vars

NextExtract == Extract \/ ExtractAgain

SpecOuter == InitOuter /\ [][NextExtract]_vars

SpecInner == InitInner /\ [][NextExtract]_vars

SpecExtract == InitExtract /\ [][NextExtract]_vars

(***************************************************************************)
(* Browser handler state machine: a caller starts and stops playwright,    *)
(* asks the config for its chromium arguments, and creates, uses and       *)
(* closes browsers through the handler.                                    *)
(***************************************************************************)
InitBrowser ==
    /\ \E cfg \in Configs : InitHandler(cfg)
    /\ sc = StructuredContent(None, Some(TAG_JSON), None, TRUE, FALSE, TRUE)
    /\ text = <<>>
    /\ pc = "handler"
    /\ result = NoResult
    /\ again = NoResult
    /\ self_model = DEFAULT_MODEL
    /\ request = NoRequest
    /\ calls = 0
    /\ provided = NoProvided
    /\ outcome = NoOutcome

\* PlaywrightResourceHandler.start
Start ==
    /\ pc = "handler"
    /\ playwright' = TRUE
    /\ returned' = Returned("start", None, None)
    /\ UNCHANGED <<config, browser, browsers, arg_calls>>
    /\ UNCHANGED llm_vars

\* PlaywrightResourceHandler.stop
Stop ==
    /\ pc = "handler"
    /\ playwright' = FALSE
    /\ returned' = Returned("stop", None, None)
    /\ UNCHANGED <<config, browser, browsers, arg_calls>>
    /\ UNCHANGED llm_vars

\* config.get_chromium_args(cdp_port)
GetChromiumArgs ==
    /\ pc = "handler"
    /\ arg_calls < MaxArgCalls
    /\ \E cdp_port \in DebugPorts :
        /\ config' = config_after_get_chromium_args(config, cdp_port)
        /\ returned' = Returned("get_chromium_args", cdp_port, get_chromium_args(config, cdp_port))
    /\ arg_calls' = arg_calls + 1
    /\ UNCHANGED <<playwright, browser, browsers>>
    /\ UNCHANGED llm_vars

\* the bounds leave room for the browser create_playwright_browser makes
CanCreate(options) ==
    /\ Len(browsers) < MaxBrowsers
    /\ (options.cdp_url = None /\ options.browser_type = CHROMIUM) => arg_calls < MaxArgCalls

\* the call counter after create_playwright_browser(options)
arg_calls_after(options) ==
    IF options.cdp_url = None /\ options.browser_type = CHROMIUM THEN arg_calls + 1 ELSE arg_calls

\* handler.create_playwright_browser(resource_options)
CreatePlaywrightBrowser ==
    /\ pc = "handler"
    /\ \E options \in ResourceOptions, ok \in BOOLEAN :
        LET c == create_playwright_browser(config, playwright, Len(browsers), options, ok)
        IN  /\ CanCreate(options)
            /\ config' = c.cfg
            /\ arg_calls' = arg_calls_after(options)
            /\ browsers' = IF c.out.kind = "return" THEN Append(browsers, FALSE) ELSE browsers
            /\ browser' = IF c.assigned THEN Some(c.out.val) ELSE browser
            /\ returned' = IF c.out.kind = "return"
                           THEN Returned("create_playwright_browser", None, c.out.val)
                           ELSE Raised("create_playwright_browser", None, c.out.err)
    /\ UNCHANGED playwright
    /\ UNCHANGED llm_vars

\* handler.close_playwright_browser(b); ok: browser.close() ends in time
\* without an exception
ClosePlaywrightBrowser ==
    /\ pc = "handler"
    /\ \E b \in 1..Len(browsers), ok \in BOOLEAN :
        IF ok
        THEN /\ browsers' = [browsers EXCEPT ![b] = TRUE]
             /\ returned' = Returned("close_playwright_browser", Some(b), TRUE)
             /\ UNCHANGED browser
        ELSE /\ browser' = None
             /\ returned' = Returned("close_playwright_browser", Some(b), FALSE)
             /\ UNCHANGED browsers
    /\ UNCHANGED <<config, playwright, arg_calls>>
    /\ UNCHANGED llm_vars

\* handler.get_browser_resource(resource_options); new_context raises on
\* a closed browser
GetBrowserResource ==
    /\ pc = "handler"
    /\ \E options \in ResourceOptions, ok \in BOOLEAN :
        IF browser = None
        THEN LET c == create_playwright_browser(config, playwright, Len(browsers), options, ok)
             IN  /\ CanCreate(options)
                 /\ config' = c.cfg
                 /\ arg_calls' = arg_calls_after(options)
                 /\ browsers' = IF c.out.kind = "return" THEN Append(browsers, FALSE) ELSE browsers
                 /\ browser' = IF c.out.kind = "return" THEN Some(c.out.val) ELSE browser
                 /\ returned' = IF c.out.kind = "return"
                                THEN Returned("get_browser_resource", None, c.out.val)
                                ELSE Raised("get_browser_resource", None, c.out.err)
        ELSE /\ returned' = IF browsers[browser[1]]
                            THEN Raised("get_browser_resource", browser, "TargetClosedError")
                            ELSE Returned("get_browser_resource", browser, browser[1])
             /\ UNCHANGED <<config, arg_calls, browsers, browser>>
    /\ UNCHANGED playwright
    /\ UNCHANGED llm_vars

NextBrowser ==
    \/ Start
    \/ Stop
    \/ GetChromiumArgs
    \/ CreatePlaywrightBrowser
    \/ ClosePlaywrightBrowser
    \/ GetBrowserResource

SpecBrowser == InitBrowser /\ [][NextBrowser]_vars

(***************************************************************************)
(* Properties of extract.                                                  *)
(***************************************************************************)
\* the text between an opening pattern at i and a closing pattern at j
Between(t, open, i, j) == SubSeq(t, i + Len(open), j - 1)

\* the indices at which pattern p occurs in t
Occurrences(t, p) == {i \in 1..(Len(t) - Len(p) + 1) : MatchAt(t, p, i)}

\* the pairs <<i, j>> with open at i and close at j, nothing overlapping
Pairs(t, open, close) ==
    {p \in Occurrences(t, open) \X Occurrences(t, close) : p[2] >= p[1] + Len(open)}

\* the well-formed <r>X</r> spans of t: X holds neither tag
SpansR(t) ==
    {p \in Pairs(t, OpenTag(TAG_R), CloseTag(TAG_R)) :
        LET X == Between(t, OpenTag(TAG_R), p[1], p[2])
        IN  ~Contains(X, OpenTag(TAG_R)) /\ ~Contains(X, CloseTag(TAG_R))}

\* C1 as stated: with outer_tag="r", extract returns X trimmed for every
\* well-formed <r>X</r> span of the text, whatever surrounds the span.
C1_AnySpanReturned ==
    (pc # "start" /\ sc.outer_tag = Some(TAG_R) /\ sc.inner_tag = None) =>
        \A p \in SpansR(text) :
            result = Ret(strip(Between(text, OpenTag(TAG_R), p[1], p[2])))

\* C1 amended: with outer_tag="r", extract returns X trimmed for the
\* well-formed <r>X</r> span that no opening tag precedes; closing tags before
\* it and any text after it (further tags included) change nothing.
C1_FirstSpanReturned ==
    (pc # "start" /\ sc.outer_tag = Some(TAG_R) /\ sc.inner_tag = None) =>
        \A p \in SpansR(text) :
            ~Contains(SubSeq(text, 1, p[1] - 1), OpenTag(TAG_R)) =>
                result = Ret(strip(Between(text, OpenTag(TAG_R), p[1], p[2])))

\* C1 witness: a span behind a stray closing tag, with whitespace to trim
\* before X, has been extracted.
C1_Witness ==
    /\ pc = "extracted"
    /\ text = CloseTag(TAG_R) \o OpenTag(TAG_R) \o <<"\n", "x">> \o CloseTag(TAG_R)
    /\ result = Ret(<<"x">>)

\* C2: with an outer tag configured, a text without a well-formed outer span
\* makes extract raise LLMParsingError when fail_if_final_tag is set or the
\* opening tag is absent.
C2_NoSpanRaises ==
    (/\ pc # "start"
     /\ Truthy(sc.outer_tag)
     /\ Pairs(text, OpenTag(sc.outer_tag[1]), CloseTag(sc.outer_tag[1])) = {}
     /\ \/ sc.fail_if_final_tag
        \/ \A i \in 1..Len(text) : ~MatchAt(text, OpenTag(sc.outer_tag[1]), i))
    => result = Raise("LLMParsingError")

\* C2 witness: a tolerant configuration (fail_if_final_tag false) has raised
\* on a non-empty text that lacks the opening tag.
C2_Witness ==
    /\ pc = "extracted"
    /\ Truthy(sc.outer_tag)
    /\ ~sc.fail_if_final_tag
    /\ text = <<"x">> \o CloseTag(TAG_R)
    /\ result = Raise("LLMParsingError")

\* a JSON text over the model's alphabet: an object {"a":"..."} whose string
\* holds no quote and no control character, whitespace allowed around it
IsValidJson(y) ==
    LET s == strip(y)
    IN  /\ Len(s) >= Len(JSON_OPEN) + Len(JSON_CLOSE)
        /\ startswith(s, JSON_OPEN)
        /\ endswith(s, JSON_CLOSE)
        /\ \A k \in (Len(JSON_OPEN) + 1)..(Len(s) - Len(JSON_CLOSE)) :
              s[k] \notin {"\"", "\n", "\t"}

\* C3 as stated, read in the code's favour (the block is the one the first
\* json marker of the text opens): with inner_tag="json", a fenced json block
\* whose body is a valid JSON text Y makes extract return Y trimmed.
C3_ValidJsonBlockReturned ==
    (pc # "start" /\ sc.outer_tag = None /\ sc.inner_tag = Some(TAG_JSON)) =>
        \A p \in Pairs(text, FENCE \o TAG_JSON, FENCE) :
            (/\ p[1] = Find(text, FENCE \o TAG_JSON, 1)
             /\ IsValidJson(Between(text, FENCE \o TAG_JSON, p[1], p[2])))
            => result = Ret(strip(Between(text, FENCE \o TAG_JSON, p[1], p[2])))

\* no tag of the configuration remains in o: no outer tag (opening or
\* closing) and no fenced inner block
NoTagsRemain(cfg, o) ==
    /\ Truthy(cfg.outer_tag) =>
          /\ ~Contains(o, OpenTag(cfg.outer_tag[1]))
          /\ ~Contains(o, CloseTag(cfg.outer_tag[1]))
    /\ Truthy(cfg.inner_tag) => Pairs(o, FENCE \o cfg.inner_tag[1], FENCE) = {}

\* a configuration that tolerates the absence of every tag it names
Tolerant(cfg) ==
    /\ ~Truthy(cfg.outer_tag)
    /\ ~Truthy(cfg.inner_tag) \/ ~cfg.fail_if_inner_tag

\* C9 as stated: for every configuration, when extract(t) returned an output
\* o in which no tags remain, extract(o) returns o unchanged.
C9_Idempotent ==
    (pc = "again" /\ NoTagsRemain(sc, result.val)) => again = result

\* C9 amended: the same, for the configurations without an outer tag whose
\* inner tag is unset or has fail_if_inner_tag false.
C9_IdempotentWhenTolerant ==
    (pc = "again" /\ Tolerant(sc) /\ NoTagsRemain(sc, result.val)) => again = result

\* C9 witness: a tolerant configuration unwrapped a fenced block and then
\* returned the unwrapped output unchanged.
C9_Witness ==
    /\ pc = "again"
    /\ Tolerant(sc)
    /\ Truthy(sc.inner_tag)
    /\ result.val # text
    /\ NoTagsRemain(sc, result.val)
    /\ again = result

(***************************************************************************)
(* Properties of the engine.                                               *)
(***************************************************************************)
\* t is a fenced json block holding a serialization of s, with optional
\* whitespace around the block and around the serialization
IsFencedSerialization(t, s) ==
    LET u == strip(t)
        lo == Len(FENCE \o TAG_JSON) + 1
        hi == Len(u) - Len(FENCE)
    IN  /\ Len(u) >= Len(FENCE \o TAG_JSON) + Len(FENCE)
        /\ startswith(u, FENCE \o TAG_JSON)
        /\ endswith(u, FENCE)
        /\ strip(SubSeq(u, lo, hi)) = Serialize(s)

\* C4 as stated: when the first choice's content is a fenced json block
\* holding a serialization of an instance s, structured_completion returns
\* an object equal to s.
C4_RoundTrip ==
    (/\ pc = "done"
     /\ request.op = "structured_completion"
     /\ provided.kind = "response"
     /\ provided.content # None)
    => \A s \in Instances :
          IsFencedSerialization(provided.content[1], s) =>
              (outcome.kind = "return" /\ outcome.val = Some(s))

\* C5: every exception of the provider client is mapped by the first row
\* that matches it: rate limit, authentication, context window (a bad
\* request too), bad request with the non-string message, other bad request
\* (no retry), API error (retry), low credit balance, anything else (retry).
C5_Classification ==
    (pc = "done" /\ provided.kind = "exception") =>
        LET cls == provided.cls
            image == Contains(provided.text, MSG_IMAGE)
            credit == Contains(provided.text, MSG_CREDIT)
        IN  /\ outcome.kind = "raise"
            /\ cls = "RateLimitError" => outcome.err = "RateLimitError"
            /\ cls = "AuthenticationError" => outcome.err = "InvalidAPIKeyError"
            /\ cls = "ContextWindowExceededError" => outcome.err = "ContextWindowExceededError"
            /\ (cls = "BadRequestError" /\ image) =>
                  outcome.err = "ModelDoesNotSupportImageError"
            /\ (cls = "BadRequestError" /\ ~image) =>
                  (outcome.err = "LLMProviderError" /\ outcome.should_retry_later = Some(FALSE))
            /\ cls = "APIError" =>
                  (outcome.err = "LLMProviderError" /\ outcome.should_retry_later = Some(TRUE))
            /\ (cls = "Timeout" /\ credit) => outcome.err = "InsufficentCreditsError"
            /\ (cls = "Timeout" /\ ~credit) =>
                  (outcome.err = "LLMProviderError" /\ outcome.should_retry_later = Some(TRUE))

\* C5 witness: a context-window error whose text also carries the
\* non-string message and the credit message was mapped by the earlier row.
C5_Witness ==
    /\ pc = "done"
    /\ request.op = "completion"
    /\ provided.cls = "ContextWindowExceededError"
    /\ Contains(provided.text, MSG_IMAGE)
    /\ Contains(provided.text, MSG_CREDIT)
    /\ outcome.err = "ContextWindowExceededError"

\* C6: a rate-limit exception of the provider client becomes RateLimitError
\* whose provider is the model argument when one is given (neither None nor
\* empty) and the engine's configured model otherwise.
C6_RateLimitCarriesModel ==
    (pc = "done" /\ provided.cls = "RateLimitError") =>
        /\ outcome.kind = "raise"
        /\ outcome.err = "RateLimitError"
        /\ outcome.provider =
              IF request.model \in {None, Some("")} THEN Some(self_model) ELSE request.model

\* C6 witness: a call without a model argument on an engine built with its
\* own model raised RateLimitError naming that model.
C6_Witness ==
    /\ pc = "done"
    /\ request = [op |-> "completion", model |-> None]
    /\ self_model = "m2"
    /\ provided.cls = "RateLimitError"
    /\ outcome.provider = Some("m2")

\* the occurrences <<i, l, d>> of "Current length is N while limit is M" in
\* t: the pattern starts at i, " while limit is " at l right after the digits
\* of N, and M, taken to its last digit, ends at d
SizeOccurrences(t) ==
    {o \in Occurrences(t, PAT_CURRENT) \X Occurrences(t, PAT_LIMIT) \X (1..Len(t)) :
        LET a == o[1] + Len(PAT_CURRENT)
            c == o[2] + Len(PAT_LIMIT)
        IN  /\ a < o[2]
            /\ \A k \in a..(o[2] - 1) : IsDigit(t[k])
            /\ c <= o[3]
            /\ \A k \in c..o[3] : IsDigit(t[k])
            /\ o[3] = Len(t) \/ ~IsDigit(t[o[3] + 1])}

\* C7: a context-window exception becomes ContextWindowExceededError with
\* current_size=N and max_size=M of the first occurrence of the pattern in
\* the exception text, and with both unset when there is none.
C7_SizesOfFirstOccurrence ==
    (pc = "done" /\ provided.cls = "ContextWindowExceededError") =>
        LET O == SizeOccurrences(provided.text)
        IN  /\ outcome.err = "ContextWindowExceededError"
            /\ O = {} => (outcome.current_size = None /\ outcome.max_size = None)
            /\ \A o \in O :
                  (\A q \in O : o[1] <= q[1]) =>
                      /\ outcome.current_size =
                            Some(int(SubSeq(provided.text, o[1] + Len(PAT_CURRENT), o[2] - 1)))
                      /\ outcome.max_size =
                            Some(int(SubSeq(provided.text, o[2] + Len(PAT_LIMIT), o[3])))
            /\ (outcome.current_size = None) <=> (outcome.max_size = None)

\* C7 witness: of two occurrences with different limits, the sizes of the
\* first were carried.
C7_Witness ==
    /\ pc = "done"
    /\ provided.cls = "ContextWindowExceededError"
    /\ provided.text = MSG_SIZES \o <<"7">> \o MSG_SIZES
    /\ outcome.current_size = Some(5000)
    /\ outcome.max_size = Some(40967)

\* C8: every call of an engine operation has issued exactly one provider
\* call when its outcome reaches the caller, whether it returned or raised,
\* and none before the operation reaches its provider call.
C8_OneProviderCall ==
    /\ pc = "done" => calls = 1
    /\ pc \in {"idle", "calling"} => calls = 0

\* C8 witness: structured_completion raised LLMParsingError after a single
\* provider call.
C8_Witness ==
    /\ pc = "done"
    /\ request.op = "structured_completion"
    /\ outcome.err = "LLMParsingError"
    /\ calls = 1

\* C10: structured_completion returns only the instance its final text
\* validates to; a text without json marker that is no {...} raises
\* LLMParsingError unvalidated; a text failing validation raises
\* LLMParsingError carrying that text.
C10_ReturnsOnlyValidated ==
    (/\ pc = "done"
     /\ request.op = "structured_completion"
     /\ provided.kind = "response"
     /\ provided.content # None)
    => LET c1 == strip(extract(sc, strip(provided.content[1])).val)
       IN  /\ outcome.kind = "return" =>
                 /\ outcome.validated
                 /\ outcome.content # None
                 /\ model_validate_json(outcome.content[1]) = outcome.val
                 /\ outcome.val # None
           /\ (/\ ~Contains(c1, FENCE \o TAG_JSON)
               /\ ~(startswith(c1, <<"{">>) /\ endswith(c1, <<"}">>)))
              => (/\ outcome.kind = "raise"
                  /\ outcome.err = "LLMParsingError"
                  /\ ~outcome.validated)
           /\ (outcome.validated /\ model_validate_json(outcome.content[1]) = None)
              => (/\ outcome.kind = "raise"
                  /\ outcome.err = "LLMParsingError"
                  /\ outcome.content # None)

\* C10 witness: a text that starts with { and ends with } failed validation
\* and was carried by the LLMParsingError.
C10_Witness ==
    /\ pc = "done"
    /\ request.op = "structured_completion"
    /\ outcome.err = "LLMParsingError"
    /\ outcome.validated
    /\ outcome.content # None
    /\ looks_like_object(outcome.content[1])

\* the errors structured_completion is specified to raise
Taxonomy ==
    {"LLMParsingError", "RateLimitError", "InvalidAPIKeyError", "ContextWindowExceededError",
     "ModelDoesNotSupportImageError", "InsufficentCreditsError", "LLMProviderError"}

\* C11: whatever the provider call does (a response with string content, a
\* response without content, an exception), structured_completion returns
\* an instance of the schema or raises an error of the taxonomy.
C11_ClosedOutcomes ==
    (pc = "done" /\ request.op = "structured_completion") =>
        \/ /\ outcome.kind = "return"
           /\ outcome.val # None
           /\ DOMAIN outcome.val[1] = {"a"}
        \/ /\ outcome.kind = "raise"
           /\ outcome.err \in Taxonomy

\* the engine's own extractor (line 35)
EngineExtractor == StructuredContent(None, Some(TAG_JSON), None, TRUE, FALSE, TRUE)

\* C12: with an inner tag configured and no fenced block of that tag in the
\* content the outer stage left, extract raises LLMParsingError when
\* fail_if_inner_tag is set and returns that content unchanged otherwise;
\* the engine's own extractor never raises.
C12_NoBlock ==
    /\ (/\ pc # "start"
        /\ Truthy(sc.inner_tag)
        /\ extract_outer(sc, text).kind = "return"
        /\ Pairs(extract_outer(sc, text).val, FENCE \o sc.inner_tag[1], FENCE) = {})
       => result = IF sc.fail_if_inner_tag THEN Raise("LLMParsingError")
                   ELSE Ret(extract_outer(sc, text).val)
    /\ (pc # "start" /\ sc = EngineExtractor) => result.kind = "return"

\* C12 witness: the engine's extractor returned, untrimmed, a text with
\* leading whitespace and an unclosed json marker.
C12_Witness ==
    /\ pc = "extracted"
    /\ sc = EngineExtractor
    /\ text = <<"\n">> \o FENCE \o TAG_JSON \o <<"x", "\n">>
    /\ result = Ret(text)

\* the text between the first opening tag of t and the next one (or the end)
SegmentAfterOpen(t, open) ==
    LET a == Find(t, open, 1) + Len(open)
        b == Find(t, open, a)
    IN  SubSeq(t, a, IF b = 0 THEN Len(t) ELSE b - 1)

\* the next-tag rescue applies to segment g
RescueApplies(cfg, g) ==
    /\ cfg.next_outer_tag # None
    /\ ~cfg.fail_if_next_outer_tag
    /\ Contains(g, OpenTag(cfg.next_outer_tag[1]))

\* segment g cut before the first opening form of the next outer tag
CutBeforeNext(cfg, g) ==
    IF RescueApplies(cfg, g)
    THEN SubSeq(g, 1, Find(g, OpenTag(cfg.next_outer_tag[1]), 1) - 1)
    ELSE g

\* s holds an angle-bracket substring <...>
HasTagLike(s) == \E i \in 1..Len(s) : s[i] = "<" /\ \E j \in (i + 1)..Len(s) : s[j] = ">"

\* the case of C13: outer tag set, tolerant, opening tag present, no span
FallbackCase ==
    /\ pc # "start"
    /\ Truthy(sc.outer_tag)
    /\ ~sc.fail_if_final_tag
    /\ Contains(text, OpenTag(sc.outer_tag[1]))
    /\ Pairs(text, OpenTag(sc.outer_tag[1]), CloseTag(sc.outer_tag[1])) = {}

\* C13 as stated: in the tolerant fallback the outer stage yields the
\* segment after the first opening tag, cut before the next outer tag when
\* the rescue applies, and raises LLMParsingError when that segment holds
\* an angle-bracket substring.
C13_FallbackSegment ==
    (FallbackCase /\ sc.inner_tag = None) =>
        LET g == CutBeforeNext(sc, SegmentAfterOpen(text, OpenTag(sc.outer_tag[1])))
        IN  result = IF HasTagLike(g) THEN Raise("LLMParsingError") ELSE Ret(g)

\* C13 amended: the same, with the cut segment trimmed of surrounding
\* whitespace when the rescue applies (and only then); the segment ends at
\* the next occurrence of the opening tag.  No returned content holds an
\* angle-bracket substring.
C13_FallbackSegmentTrimmed ==
    (FallbackCase /\ sc.inner_tag = None) =>
        LET seg == SegmentAfterOpen(text, OpenTag(sc.outer_tag[1]))
            g == IF RescueApplies(sc, seg) THEN strip(CutBeforeNext(sc, seg)) ELSE seg
        IN  /\ result = IF HasTagLike(g) THEN Raise("LLMParsingError") ELSE Ret(g)
            /\ result.kind = "return" => ~HasTagLike(result.val)

\* C13 witness: the rescue cut the segment before <n> and the trimmed part
\* was returned.
C13_Witness ==
    /\ pc = "extracted"
    /\ sc.next_outer_tag = Some(TAG_N)
    /\ ~sc.fail_if_next_outer_tag
    /\ ~sc.fail_if_final_tag
    /\ text = OpenTag(TAG_R) \o <<"\n", "x">> \o OpenTag(TAG_N) \o <<"x">>
    /\ result = Ret(<<"x">>)

\* number of times flag f stands in list l
CountFlag(l, f) == Cardinality({i \in 1..Len(l) : l[i] = f})

\* the --remote-debugging-port flags get_chromium_args can add
PortFlags == {remote_debugging_port_flag(p[1]) : p \in DebugPorts \ {None}}

\* C14: get_chromium_args leaves the configuration unchanged: after any
\* sequence of calls default_chromium_args is the list of construction, and
\* a call returns the list built from it for its cdp_port, with each
\* security flag at most once and no --remote-debugging-port flag but the one
\* of that call, at most once.
C14_ConfigUnchanged ==
    /\ config.default_chromium_args = default_chromium_args
    /\ returned.op = "get_chromium_args" =>
        /\ returned.val = chromium_args_from(config, default_chromium_args, returned.arg)
        /\ \A i \in 1..Len(security_chromium_args) :
              CountFlag(returned.val, security_chromium_args[i]) <= 1
        /\ \A f \in PortFlags :
              CountFlag(returned.val, f) <=
                 (IF returned.arg # None /\ f = remote_debugging_port_flag(returned.arg[1])
                  THEN 1 ELSE 0)

\* C15: the handler holds no browser it has closed: handler.browser is None
\* or a browser not closed through the handler, the browser just passed to
\* close_playwright_browser is no longer handler.browser, and
\* get_browser_resource never calls new_context on a closed browser.
C15_NoClosedBrowserHeld ==
    /\ browser # None => ~browsers[browser[1]]
    /\ returned.op = "close_playwright_browser" => browser # returned.arg
    /\ ~(returned.op = "get_browser_resource" /\ returned.err = "TargetClosedError")

====
